---- MODULE Spec2Model ----
(***************************************************************************)
(* Model of vale-mcp-server: the Vale installation cache and the exported  *)
(* operations of vale-runner.ts, the config resolution of config.ts and    *)
(* the call-tool dispatcher and startup sequence of index.ts.              *)
(* Three specifications: Spec is the server program, SpecCache the cache    *)
(* under its exported operations, SpecOutput the output pipeline of        *)
(* checkFile run on generated texts and documents.                         *)
(*                                                                         *)
(* Text is modelled as a sequence of tokens (a token is a piece of a       *)
(* string: a word, a path segment, a separator, a whole JSON document).    *)
(* The empty sequence is the empty string; Undefined is JavaScript's       *)
(* undefined.  Every await on an external process is a separate step of    *)
(* the model, so requests interleave where the code can be suspended.  The *)
(* file system does not change during a run, so an await on fs.access is   *)
(* joined to the stretch of code before it.                                *)
(***************************************************************************)
EXTENDS Naturals, Sequences, FiniteSets, TLC

\* Number of call-tool requests that can be in flight at the same time.
NumReq == 2

Reqs == 1..NumReq

\* JavaScript's undefined, kept apart from every string.
Undefined == <<"<undefined>">>

\* JavaScript truthiness of a string-or-undefined value.
Truthy(s) == s # Undefined /\ s # <<>>

\* a || b on string-or-undefined values.
OrElse(a, b) == IF Truthy(a) THEN a ELSE b

(***************************************************************************)
(* Paths (Node's path module on POSIX), on token sequences where "/" is    *)
(* the separator token.  The inputs of the model contain no "." or ".."    *)
(* segments, so path.resolve has nothing to normalise.                     *)
(***************************************************************************)

\* process.cwd()
Cwd == <<"/", "srv">>

isAbsolute(p) == Len(p) > 0 /\ p[1] = "/"

\* path.resolve(process.cwd(), p) for a relative p; path.resolve(p) alike.
resolve(p) == IF isAbsolute(p) THEN p ELSE Cwd \o <<"/">> \o p

\* path.join(dir, name)
join(dir, name) == dir \o <<"/">> \o <<name>>

\* Positions of the separator in p.
SepPositions(p) == {i \in 1..Len(p) : p[i] = "/"}

LastSep(p) == CHOOSE i \in SepPositions(p) : \A j \in SepPositions(p) : j <= i

\* path.dirname(p)
dirname(p) ==
    IF SepPositions(p) = {} THEN <<".">>
    ELSE IF LastSep(p) = 1 THEN <<"/">>
    ELSE SubSeq(p, 1, LastSep(p) - 1)

\* Files of the model's file system.
CwdIni  == join(Cwd, ".vale.ini")
AltIni  == <<"/", "srv", "/", "alt.ini">>
DocsIni == <<"/", "docs", "/", ".vale.ini">>
DocA    == <<"/", "docs", "/", "a.md">>

\* A target given relative to the working directory, and the file it names.
SubB    == <<"sub", "/", "b.md">>
SubBAbs == <<"/", "srv", "/", "sub", "/", "b.md">>

\* Files that are readable in every run, and files that may or may not be.
AlwaysReadable == {DocsIni, DocA, SubBAbs}
MaybeReadable  == {CwdIni, AltIni}

\* Values of the environment variable VALE_CONFIG_PATH (unset, empty, relative path).
EnvValues == {Undefined, <<>>, <<"alt.ini">>}

(***************************************************************************)
(* Case-insensitive search for the missing-styles signature.               *)
(***************************************************************************)

\* Lower-casing of a token (the tokens of the model that contain capitals).
Lower(t) ==
    CASE t = "E100"    -> "e100"
      [] t = "Runtime" -> "runtime"
      [] t = "Does"    -> "does"
      [] OTHER         -> t

LowerSeq(s) == [i \in DOMAIN s |-> Lower(s[i])]

\* pat occurs in s as a contiguous run of tokens.
Contains(s, pat) ==
    \E i \in 1..Len(s) :
        /\ i + Len(pat) - 1 <= Len(s)
        /\ SubSeq(s, i, i + Len(pat) - 1) = pat

\* The alternatives of the signature (E100, does not exist, Runtime error), lower-cased.
StylesPatterns == {<<"e100">>, <<"does", "not", "exist">>, <<"runtime", "error">>}

\* Mutant of isStylesDirectoryError: the signature is matched case-sensitively.
isStylesDirectoryErrorCaseSensitive(errorMessage) ==
    \E pat \in {<<"E100">>, <<"does", "not", "exist">>, <<"Runtime", "error">>} :
        Contains(errorMessage, pat)

isStylesDirectoryError(errorMessage) ==
    \E pat \in StylesPatterns : Contains(LowerSeq(errorMessage), pat)

(***************************************************************************)
(* The external tool.                                                      *)
(***************************************************************************)

\* stdout of the version query when the tool is on the PATH.
VersionStdout == <<"vale version 3.7.1", "\n">>

\* The tokens of a markdown code fence: three backticks followed by json, and three backticks.
FenceJson == "<fence>json"

Fence == "<fence>"

IsSpace(t) == t \in {" ", "\n"}

RECURSIVE TrimLeft(_)
TrimLeft(s) == IF s # <<>> /\ IsSpace(Head(s)) THEN TrimLeft(Tail(s)) ELSE s

RECURSIVE TrimRight(_)
TrimRight(s) ==
    IF s # <<>> /\ IsSpace(s[Len(s)]) THEN TrimRight(SubSeq(s, 1, Len(s) - 1)) ELSE s

\* String.prototype.trim
trim(s) == TrimLeft(TrimRight(s))

\* error.message of the rejected version query when the tool is absent.
VersionErrorMessage == <<"Command failed: vale --version", "\n", "vale: not found">>

\* Outcome of execAsync("vale --version") in an environment where the tool
\* is present or absent.
VersionQuery(present) ==
    IF present THEN [ok |-> TRUE,  stdout |-> VersionStdout, message |-> <<>>]
    ELSE            [ok |-> FALSE, stdout |-> <<>>, message |-> VersionErrorMessage]

(***************************************************************************)
(* The installation cache and checkValeInstalled (probe).                  *)
(***************************************************************************)

\* valeInstallCache as constructed, and as clearValeInstallCache leaves it.
UncheckedCache ==
    [checked |-> FALSE, installed |-> FALSE, version |-> Undefined, error |-> Undefined]

\* Mutant of CacheHit: the cached branch is never taken.
CacheHitNever(cache) == FALSE

\* The guard of the cached branch of checkValeInstalled.
CacheHit(cache) == cache.checked

\* The status record checkValeInstalled returns, read from the cache.
CachedStatus(cache) ==
    [installed |-> cache.installed, version |-> cache.version, error |-> cache.error]

\* Mutant of StoreVersionResult: the fields are updated one by one, and a
\* field the new result does not set keeps its old value.
StoreVersionResultFieldwise(cache, outcome) ==
    IF outcome.ok
    THEN [cache EXCEPT !.checked = TRUE, !.installed = TRUE,
                       !.version = trim(outcome.stdout)]
    ELSE [cache EXCEPT !.checked = TRUE, !.installed = FALSE,
                       !.error = outcome.message]

\* The assignment to valeInstallCache after the version query: the whole
\* record is replaced (exec rejections are Error objects, so the message
\* is the one of the error).
StoreVersionResult(cache, outcome) ==
    IF outcome.ok
    THEN [checked |-> TRUE, installed |-> TRUE,
          version |-> trim(outcome.stdout), error |-> Undefined]
    ELSE [checked |-> TRUE, installed |-> FALSE,
          version |-> Undefined, error |-> outcome.message]

(***************************************************************************)
(* Output normalizer: stripCodeFence, parseValeOutput, normalizeIssues,    *)
(* generateSummary.                                                        *)
(***************************************************************************)

\* The first replace of stripCodeFence: an opening json fence and the white space after it.
StripOpeningFence(s) ==
    IF s # <<>> /\ Head(s) = FenceJson THEN TrimLeft(Tail(s)) ELSE s

\* The second replace of stripCodeFence: a closing fence, one newline before it, white space after it.
StripClosingFence(s) ==
    LET t == TrimRight(s) IN
    IF t # <<>> /\ t[Len(t)] = Fence
    THEN LET u == SubSeq(t, 1, Len(t) - 1) IN
         IF u # <<>> /\ u[Len(u)] = "\n" THEN SubSeq(u, 1, Len(u) - 1) ELSE u
    ELSE s

stripCodeFence(output) == trim(StripClosingFence(StripOpeningFence(output)))

Issue(line, check, severity, match, link) ==
    [Line |-> line, Span |-> <<1, 5>>, Check |-> check, Message |-> <<"msg:", check>>,
     Severity |-> severity, Link |-> link, Match |-> match]

\* The JSON documents of the model: a document is the sequence of its
\* (file, issues) members in source order.
Doc1 == << [file |-> <<"a.md">>,
            issues |-> << Issue(3, "Vale.Spelling", "error", Undefined, Undefined) >>] >>

Doc2 == << [file |-> <<"a.md">>,
            issues |-> << Issue(7, "Style.Passive", "suggestion", <<"was">>, Undefined),
                          Issue(2, "Vale.Repetition", "error", <<"the the">>, <<"https://vale.sh">>) >>],
           [file |-> <<"b.md">>,
            issues |-> << Issue(5, "Style.Wordy", "warning", Undefined, Undefined),
                          Issue(9, "Style.Custom", "info", Undefined, Undefined) >>] >>

\* JSON.parse: the value, or the SyntaxError it throws.
JSONparse(text) ==
    CASE text = <<"{}">>   -> [thrown |-> FALSE, message |-> <<>>, value |-> <<>>]
      [] text = <<"DOC1">> -> [thrown |-> FALSE, message |-> <<>>, value |-> Doc1]
      [] text = <<"DOC2">> -> [thrown |-> FALSE, message |-> <<>>, value |-> Doc2]
      [] OTHER -> [thrown |-> TRUE, message |-> <<"Unexpected token">>, value |-> <<>>]

\* Mutant of parseValeOutput: the cleaned text is parsed also when it is empty.
parseValeOutputNoEmptyCheck(output) ==
    LET parsed == JSONparse(stripCodeFence(output)) IN
    IF parsed.thrown
    THEN [thrown |-> TRUE,
          message |-> <<"Failed to parse Vale JSON output: ">> \o parsed.message,
          value |-> <<>>]
    ELSE parsed

parseValeOutput(output) ==
    LET cleanedOutput == stripCodeFence(output) IN
    IF cleanedOutput = <<>>
    THEN [thrown |-> FALSE, message |-> <<>>, value |-> <<>>]
    ELSE LET parsed == JSONparse(cleanedOutput) IN
         IF parsed.thrown
         THEN [thrown |-> TRUE,
               message |-> <<"Failed to parse Vale JSON output: ">> \o parsed.message,
               value |-> <<>>]
         ELSE parsed

NormalizedIssue(issue) ==
    [line |-> issue.Line, span |-> issue.Span, check |-> issue.Check,
     message |-> issue.Message, severity |-> issue.Severity,
     link |-> issue.Link, match |-> issue.Match]

RECURSIVE normalizeIssues(_)
normalizeIssues(issues) ==
    IF issues = <<>> THEN <<>>
    ELSE [i \in DOMAIN Head(issues).issues |-> NormalizedIssue(Head(issues).issues[i])]
         \o normalizeIssues(Tail(issues))

\* Mutant of generateSummary: the total is the sum of the three counts.
generateSummaryTotalOfCounts(issues) ==
    LET count(severity) == Cardinality({i \in DOMAIN issues : issues[i].severity = severity}) IN
    [total |-> count("error") + count("warning") + count("suggestion"),
     errors |-> count("error"),
     warnings |-> count("warning"),
     suggestions |-> count("suggestion")]

CountSeverity(issues, severity) ==
    Cardinality({i \in DOMAIN issues : issues[i].severity = severity})

generateSummary(issues) ==
    [total |-> Len(issues),
     errors |-> CountSeverity(issues, "error"),
     warnings |-> CountSeverity(issues, "warning"),
     suggestions |-> CountSeverity(issues, "suggestion")]

(***************************************************************************)
(* Report formatter.                                                       *)
(***************************************************************************)

\* issues.filter(i => i.severity === severity)
FilterSeverity(issues, severity) == SelectSeq(issues, LAMBDA i : i.severity = severity)

\* One rendered entry block of the report.
Entry(issue, severity) ==
    [severity |-> severity, line |-> issue.line, message |-> issue.message,
     match |-> issue.match, check |-> issue.check, link |-> issue.link]

\* Mutant of EntriesOf: only the first issue of a group is rendered.
EntriesOfFirst(issues, severity) ==
    LET group == FilterSeverity(issues, severity) IN
    IF group = <<>> THEN <<>> ELSE << Entry(group[1], severity) >>

EntriesOf(issues, severity) ==
    LET group == FilterSeverity(issues, severity) IN
    [i \in DOMAIN group |-> Entry(group[i], severity)]

\* The parenthesized clause: the non-zero counts, in the order pushed.
SummaryParts(summary) ==
    (IF summary.errors > 0 THEN << <<summary.errors, "error">> >> ELSE <<>>)
    \o (IF summary.warnings > 0 THEN << <<summary.warnings, "warning">> >> ELSE <<>>)
    \o (IF summary.suggestions > 0 THEN << <<summary.suggestions, "suggestion">> >> ELSE <<>>)

\* Mutant of formatValeResults: the entries are rendered in the order of
\* the issue list, without grouping.
formatValeResultsUngrouped(issues, summary, context) ==
    IF Len(issues) = 0
    THEN [noIssues |-> TRUE, context |-> Undefined, total |-> 0,
          parts |-> <<>>, entries |-> <<>>]
    ELSE LET rendered == SelectSeq(issues,
                 LAMBDA i : i.severity \in {"error", "warning", "suggestion"})
         IN [noIssues |-> FALSE, context |-> context, total |-> summary.total,
             parts |-> SummaryParts(summary),
             entries |-> [k \in DOMAIN rendered |-> Entry(rendered[k], rendered[k].severity)]]

\* The rendered report, as the structure of its markdown text.
formatValeResults(issues, summary, context) ==
    IF Len(issues) = 0
    THEN [noIssues |-> TRUE, context |-> Undefined, total |-> 0,
          parts |-> <<>>, entries |-> <<>>]
    ELSE [noIssues |-> FALSE, context |-> context, total |-> summary.total,
          parts |-> SummaryParts(summary),
          entries |-> EntriesOf(issues, "error") \o EntriesOf(issues, "warning")
                      \o EntriesOf(issues, "suggestion")]

(***************************************************************************)
(* Responses of the call-tool handler.  A response is the content the      *)
(* handler returns: json is the object given to JSON.stringify (members    *)
(* whose value is undefined are omitted, as JSON.stringify does), text the *)
(* markdown text, report and meta the rendered report and the structured   *)
(* data of check_file.  kind names the return statement that built it.     *)
(***************************************************************************)

JSONstringify(obj) == [k \in {m \in DOMAIN obj : obj[m] # Undefined} |-> obj[k]]

NoJson == <<>>

NoReport == [noIssues |-> FALSE, context |-> Undefined, total |-> 0,
             parts |-> <<>>, entries |-> <<>>]

NoMeta == [file |-> Undefined, issues |-> <<>>, summary |-> generateSummary(<<>>)]

NoResp == [kind |-> "none", json |-> NoJson, text |-> <<>>,
           report |-> NoReport, meta |-> NoMeta]

JsonResp(kind, obj) == [NoResp EXCEPT !.kind = kind, !.json = JSONstringify(obj)]

TextResp(kind, text) == [NoResp EXCEPT !.kind = kind, !.text = text]

\* process.platform
Platform == <<"linux">>

\* The table entry of getInstallationInstructions for the host platform.
getInstallationInstructions ==
    <<"platform:">> \o Platform \o <<"methods: Snap, Download binary", "documentation">>

createValeNotInstalledResponse ==
    JsonResp("not_installed",
        [error |-> <<"Vale is not installed or not found in PATH">>,
         vale_required |-> <<"true">>,
         installation_instructions |-> getInstallationInstructions,
         message |-> <<"Please install Vale to use this feature.">>])

\* Mutant of StatusResponse: the installation guidance is always given.
StatusResponseAlwaysGuidance(valeCheck) ==
    JsonResp("status",
        [installed |-> IF valeCheck.installed THEN <<"true">> ELSE <<"false">>,
         version |-> valeCheck.version,
         platform |-> Platform,
         installation_instructions |-> getInstallationInstructions,
         message |->
             IF valeCheck.installed
             THEN <<"Vale is installed and ready to use (">> \o valeCheck.version \o <<")">>
             ELSE <<"Vale is not installed. Please install it to use Vale linting tools.">>])

\* The response of the vale_status case.
StatusResponse(valeCheck) ==
    JsonResp("status",
        [installed |-> IF valeCheck.installed THEN <<"true">> ELSE <<"false">>,
         version |-> valeCheck.version,
         platform |-> Platform,
         installation_instructions |->
             IF valeCheck.installed THEN <<"null">> ELSE getInstallationInstructions,
         message |->
             IF valeCheck.installed
             THEN <<"Vale is installed and ready to use (">> \o valeCheck.version \o <<")">>
             ELSE <<"Vale is not installed. Please install it to use Vale linting tools.">>])

\* The two responses of the vale_sync case.
SyncResponse(syncResult) ==
    IF syncResult.success
    THEN TextResp("sync_ok",
             <<"Vale Sync Successful">> \o syncResult.message
             \o (IF Truthy(syncResult.output) THEN <<"Output:">> \o syncResult.output ELSE <<>>))
    ELSE TextResp("sync_failed",
             <<"Vale Sync Failed">> \o syncResult.message
             \o (IF Truthy(syncResult.error) THEN <<"Error:">> \o syncResult.error ELSE <<>>))

MissingPathResponse ==
    JsonResp("invalid_request", [error |-> <<"Missing required parameter: path">>])

UnknownToolResponse(name) ==
    JsonResp("unknown_tool", [error |-> <<"Unknown tool: ", name>>])

\* The response of the check_file case for a result of checkFile.
ReportResponse(result) ==
    [NoResp EXCEPT !.kind = "report", !.report = result.formatted,
                   !.meta = [file |-> result.file, issues |-> result.issues,
                             summary |-> result.summary]]

\* The catch block of the handler: every failure raised in the try block
\* is an Error, whose message decides between the two payloads.
CatchResponse(errorMessage) ==
    IF isStylesDirectoryError(errorMessage)
    THEN TextResp("styles_guidance",
             <<"Vale Configuration Error">> \o errorMessage \o <<"Run the vale_sync tool">>)
    ELSE JsonResp("generic_error", [error |-> errorMessage, details |-> <<"stack">>])

\* The TypeError of destructuring the request's arguments when they are absent.
DestructureMessage == <<"Cannot destructure property of 'args' as it is undefined.">>

(***************************************************************************)
(* syncValeStyles and checkFile, from the point where the external         *)
(* command has finished.  An outcome of execAsync is [ok, stdout, stderr,  *)
(* message]: ok when the promise resolved (exit status zero), otherwise    *)
(* the fields of the rejection error.                                      *)
(***************************************************************************)

Outcome(ok, stdout, stderr, message) ==
    [ok |-> ok, stdout |-> stdout, stderr |-> stderr, message |-> message]

NoOutcome == Outcome(FALSE, <<>>, <<>>, <<>>)

\* Outcomes of the sync command.
SyncOutcomes ==
    { Outcome(TRUE, <<"synced", "\n">>, <<"1 package">>, <<>>),
      Outcome(FALSE, <<>>, <<"network">>, <<"Command failed: vale sync", "network">>) }

\* Outcomes of the lint command.
LintOutcomes ==
    { Outcome(TRUE, <<"{}">>, <<>>, <<>>),
      Outcome(TRUE, <<>>, <<>>, <<>>),
      Outcome(FALSE, <<"DOC1", "\n">>, <<>>, <<"Command failed: vale">>),
      Outcome(FALSE, <<FenceJson, "\n", "DOC2", "\n", Fence, "\n">>, <<>>, <<"Command failed: vale">>),
      Outcome(FALSE, <<"not json">>, <<>>, <<"Command failed: vale">>),
      Outcome(FALSE, <<>>, <<"E100", "Runtime", "error", "path", "does", "not", "exist">>,
              <<"Command failed: vale", "E100">>),
      Outcome(FALSE, <<>>, <<"runtime", "error">>, <<"Command failed: vale">>),
      Outcome(FALSE, <<>>, <<>>, <<"spawn ENOMEM">>) }

NoSyncResult == [success |-> FALSE, message |-> <<>>, output |-> Undefined, error |-> Undefined]

\* Mutant of syncValeStylesFinish: a failed command is not caught.
syncValeStylesFinishRethrow(outcome) ==
    IF outcome.ok
    THEN [thrown |-> FALSE, message |-> <<>>,
          value |-> [success |-> TRUE,
                     message |-> <<"Vale styles synchronized successfully">>,
                     output |-> trim(outcome.stdout), error |-> Undefined]]
    ELSE [thrown |-> TRUE, message |-> outcome.message, value |-> NoSyncResult]

\* What syncValeStyles does with the outcome of the sync command: the
\* record it returns, or the failure it lets escape.
syncValeStylesFinish(outcome) ==
    IF outcome.ok
    THEN [thrown |-> FALSE, message |-> <<>>,
          value |-> [success |-> TRUE,
                     message |-> <<"Vale styles synchronized successfully">>,
                     output |-> trim(outcome.stdout \o
                                     (IF Truthy(outcome.stderr)
                                      THEN <<"\n">> \o outcome.stderr ELSE <<>>)),
                     error |-> Undefined]]
    ELSE [thrown |-> FALSE, message |-> <<>>,
          value |-> [success |-> FALSE,
                     message |-> <<"Failed to sync Vale styles">>,
                     output |-> Undefined,
                     error |-> outcome.message]]

\* Mutant of LintStdout: the exit status decides, a rejection is a failure.
LintStdoutByExitStatus(outcome) ==
    IF outcome.ok
    THEN [thrown |-> FALSE, message |-> <<>>, value |-> outcome.stdout]
    ELSE [thrown |-> TRUE,
          message |-> <<"Vale execution failed: ">>
                      \o OrElse(outcome.stderr, OrElse(outcome.message, <<"Unknown error">>)),
          value |-> <<>>]

\* The stdout checkFile goes on with, or the failure it throws.
LintStdout(outcome) ==
    IF outcome.ok
    THEN [thrown |-> FALSE, message |-> <<>>, value |-> outcome.stdout]
    ELSE IF Truthy(outcome.stdout)
    THEN [thrown |-> FALSE, message |-> <<>>, value |-> outcome.stdout]
    ELSE [thrown |-> TRUE,
          message |-> <<"Vale execution failed: ">>
                      \o OrElse(outcome.stderr, OrElse(outcome.message, <<"Unknown error">>)),
          value |-> <<>>]

NoCheckResult ==
    [formatted |-> NoReport, file |-> Undefined, issues |-> <<>>,
     summary |-> generateSummary(<<>>)]

\* checkFile from the end of the lint command to its return or throw.
checkFileFinish(absolutePath, outcome) ==
    LET out == LintStdout(outcome) IN
    IF out.thrown
    THEN [thrown |-> TRUE, message |-> out.message, value |-> NoCheckResult]
    ELSE LET rawOutput == parseValeOutput(out.value) IN
         IF rawOutput.thrown
         THEN [thrown |-> TRUE, message |-> rawOutput.message, value |-> NoCheckResult]
         ELSE LET issues == normalizeIssues(rawOutput.value)
                  summary == generateSummary(issues)
              IN [thrown |-> FALSE, message |-> <<>>,
                  value |-> [formatted |-> formatValeResults(issues, summary, absolutePath),
                             file |-> absolutePath, issues |-> issues,
                             summary |-> summary]]

\* The failure checkFile throws when fs.access rejects.
FileNotFoundMessage(filePath) == <<"File not found or not readable: ">> \o filePath

(***************************************************************************)
(* State.                                                                  *)
(***************************************************************************)

VARIABLES
    valeInstallCache,   \* the module-level cache of vale-runner.ts
    valeConfigPath,     \* the module-level resolved config path of index.ts
    config,             \* loadConfig(): [configPath], read once at startup
    readable,           \* the files fs.access(.., R_OK) accepts
    valePresent,        \* whether the external tool is on the PATH now
    mainPc,             \* where main() / initializeValeConfig() stands
    req,                \* the call-tool requests in flight, one record per slot
    completed,          \* the request that finished last, with its response
    stale,              \* history: callers whose version query was in flight
                        \* when clearValeInstallCache was last called
    cacheStale,         \* history: the cache was last written by such a query
    race,               \* history: the version queries that were launched and
                        \* have finished since the cache was last cleared:
                        \* [who, outcome, returned] of each
    pipeline            \* one run of the output pipeline of checkFile on its
                        \* own: parse, normalize, summarize, format

vars == <<valeInstallCache, valeConfigPath, config, readable, valePresent,
          mainPc, req, completed, stale, cacheStale, race, pipeline>>

\* The caller id of main(); requests are identified by their slot.
Main == 0

\* fs.access(p, R_OK): relative paths are taken from the working directory.
Readable(p) == resolve(p) \in readable

loadConfig(env) == [configPath |-> IF Truthy(env) THEN env ELSE Undefined]

resolveConfigPath(configPath) ==
    IF isAbsolute(configPath) THEN configPath ELSE resolve(configPath)

verifyConfigFile(configPath) == Readable(configPath)

\* The path of the working directory's .vale.ini, or Undefined for null.
findValeIniInWorkingDir ==
    LET valeIniPath == join(Cwd, ".vale.ini") IN
    IF Readable(valeIniPath) THEN valeIniPath ELSE Undefined

(***************************************************************************)
(* Requests.                                                               *)
(***************************************************************************)

NoArgs == [present |-> FALSE, path |-> Undefined, config_path |-> Undefined]

Args(path, config_path) == [present |-> TRUE, path |-> path, config_path |-> config_path]

ToolNames == {"vale_status", "vale_sync", "check_file", "no_such_tool"}

\* Target paths of check_file that name no readable file.
MissingPlain == <<"c.md">>
MissingE100  == <<"E100", ".md">>

\* The arguments tried with each tool name (absent arguments included).
ArgsOf(name) ==
    CASE name = "vale_status" -> {NoArgs}
      [] name = "vale_sync"   -> {NoArgs, Args(Undefined, Undefined),
                                  Args(Undefined, <<"alt.ini">>), Args(Undefined, DocsIni)}
      [] name = "check_file"  -> {NoArgs, Args(<<>>, Undefined),
                                  Args(DocA, Undefined), Args(SubB, Undefined),
                                  Args(MissingPlain, Undefined),
                                  Args(MissingE100, Undefined)}
      [] OTHER                -> {NoArgs}

NoStatus == [installed |-> FALSE, version |-> Undefined, error |-> Undefined]

NoCmd == [tool |-> "none", config |-> Undefined, cwd |-> <<>>, target |-> <<>>]

\* A request.  pc: idle (no request on the slot), probe_wait (its version
\* query is running), sync_exec / lint_exec (its command is running), done
\* (the handler has returned).  probed / valeCheck: checkValeInstalled has
\* returned / what it returned.  probeLaunched: the request launched a
\* version query.  cmd, outcome: the sync or lint command the request
\* launched and how it ended.  error: the failure caught by the handler.
\* fault: a failure left the handler.
IdleSlot ==
    [pc |-> "idle", name |-> "", args |-> NoArgs,
     probed |-> FALSE, valeCheck |-> NoStatus, probeLaunched |-> FALSE,
     configPath |-> Undefined, cmd |-> NoCmd, outcome |-> NoOutcome,
     syncResult |-> NoSyncResult, error |-> Undefined,
     fault |-> FALSE, resp |-> NoResp]

\* The handler returns a response.
Return(slot, resp) == [slot EXCEPT !.pc = "done", !.resp = resp]

\* Mutant of Throw: the failure is raised outside the try block and leaves
\* the handler.
ThrowUncaught(slot, errorMessage) ==
    [slot EXCEPT !.pc = "done", !.error = errorMessage, !.fault = TRUE]

\* A failure raised inside the handler's try block: the catch block
\* answers it.
Throw(slot, errorMessage) ==
    [slot EXCEPT !.pc = "done", !.error = errorMessage,
                 !.resp = CatchResponse(errorMessage)]

\* The command syncValeStyles builds: with the config flag, run in the
\* config's directory, when a config path was given and is accessible;
\* plain and run in the working directory otherwise.
SyncCommand(configPath) ==
    IF Truthy(configPath) /\ Readable(configPath)
    THEN [tool |-> "sync", config |-> configPath,
          cwd |-> dirname(resolve(configPath)), target |-> <<>>]
    ELSE [tool |-> "sync", config |-> Undefined, cwd |-> Cwd, target |-> <<>>]

\* The absolute path checkFile works with.
AbsolutePath(filePath) == IF isAbsolute(filePath) THEN filePath ELSE resolve(filePath)

\* Mutant of LintCommand: the command is run in the server's working directory.
LintCommandInServerCwd(filePath, configPath) ==
    [tool |-> "lint",
     config |-> IF Truthy(configPath) THEN configPath ELSE Undefined,
     cwd |-> Cwd,
     target |-> AbsolutePath(filePath)]

\* The lint command checkFile builds.
LintCommand(filePath, configPath) ==
    [tool |-> "lint",
     config |-> IF Truthy(configPath) THEN configPath ELSE Undefined,
     cwd |-> dirname(AbsolutePath(filePath)),
     target |-> AbsolutePath(filePath)]

\* Mutant of EffectiveConfigPath: the process-wide path comes first.
EffectiveConfigPathServerFirst(config_path, cfg) == OrElse(cfg, config_path)

\* The config path the vale_sync case hands to syncValeStyles.
EffectiveConfigPath(config_path, cfg) == OrElse(config_path, cfg)

\* syncValeStyles(configPath), up to the launch of its command.
syncValeStyles(slot, configPath) ==
    [slot EXCEPT !.pc = "sync_exec", !.configPath = configPath,
                 !.cmd = SyncCommand(configPath)]

\* checkFile(filePath, configPath), up to the launch of its command or
\* the failure of the access check.
checkFile(slot, filePath, configPath) ==
    IF Readable(filePath)
    THEN [slot EXCEPT !.pc = "lint_exec", !.configPath = configPath,
                      !.cmd = LintCommand(filePath, configPath)]
    ELSE Throw([slot EXCEPT !.configPath = configPath], FileNotFoundMessage(filePath))

\* Mutant of Gated: the probe's answer is not looked at.
GatedNever(valeCheck) == FALSE

\* The gate of vale_sync and check_file on the probe's answer.
Gated(valeCheck) == ~valeCheck.installed

\* The handler after `await checkValeInstalled()` has given valeCheck, up
\* to its next await or its return.  cfg is valeConfigPath at that moment.
AfterProbe(slot, valeCheck, cfg) ==
    LET s == [slot EXCEPT !.probed = TRUE, !.valeCheck = valeCheck] IN
    CASE s.name = "vale_status" -> Return(s, StatusResponse(valeCheck))
      [] s.name = "vale_sync" ->
            IF Gated(valeCheck) THEN Return(s, createValeNotInstalledResponse)
            ELSE syncValeStyles(s, EffectiveConfigPath(s.args.config_path, cfg))
      [] OTHER ->
            IF Gated(valeCheck) THEN Return(s, createValeNotInstalledResponse)
            ELSE checkFile(s, s.args.path, cfg)

\* checkValeInstalled, from its call to its first await or its return.
CallProbe(slot, cache, cfg) ==
    IF CacheHit(cache)
    THEN AfterProbe(slot, CachedStatus(cache), cfg)
    ELSE [slot EXCEPT !.pc = "probe_wait", !.probeLaunched = TRUE]

\* Mutant of MissingPath: only an absent path counts as missing.
MissingPathUndefinedOnly(args) == args.path = Undefined

\* The check_file case's test of its path argument.
MissingPath(args) == ~Truthy(args.path)

\* The handler from its start to its first await or its return.
Dispatch(name, args, cache, cfg) ==
    LET s == [IdleSlot EXCEPT !.name = name, !.args = args] IN
    CASE name = "vale_status" -> CallProbe(s, cache, cfg)
      [] name = "vale_sync" ->
            IF ~args.present THEN Throw(s, DestructureMessage)
            ELSE CallProbe(s, cache, cfg)
      [] name = "check_file" ->
            IF ~args.present THEN Throw(s, DestructureMessage)
            ELSE IF MissingPath(args) THEN Return(s, MissingPathResponse)
            ELSE CallProbe(s, cache, cfg)
      [] OTHER -> Return(s, UnknownToolResponse(name))

\* The handler of slot r has reached s: a request that has finished frees
\* its slot and becomes the completed one.
Reach(r, s) ==
    IF s.pc = "done"
    THEN /\ req' = [req EXCEPT ![r] = IdleSlot]
         /\ completed' = s
    ELSE /\ req' = [req EXCEPT ![r] = s]
         /\ completed' = completed

\* The output pipeline when it is not run on its own.
IdlePipeline ==
    [pc |-> "idle", fromText |-> FALSE, opener |-> <<>>, body |-> <<>>, closer |-> <<>>,
     stdout |-> <<>>, rawOutput |-> <<>>, issues |-> <<>>,
     summary |-> generateSummary(<<>>), formatted |-> NoReport, message |-> <<>>]

(***************************************************************************)
(* Initial state: the modules are loaded, main() has not run.              *)
(***************************************************************************)

Init ==
    /\ valeInstallCache = UncheckedCache
    /\ valeConfigPath = Undefined
    /\ \E env \in EnvValues : config = loadConfig(env)
    /\ \E files \in SUBSET MaybeReadable : readable = AlwaysReadable \cup files
    /\ valePresent \in BOOLEAN
    /\ mainPc = "start"
    /\ req = [r \in Reqs |-> IdleSlot]
    /\ completed = IdleSlot
    /\ stale = {}
    /\ cacheStale = FALSE
    /\ race = {}
    /\ pipeline = IdlePipeline

(***************************************************************************)
(* main() and initializeValeConfig().                                      *)
(***************************************************************************)

\* Where initializeValeConfig goes once checkValeInstalled has answered.
AfterStartupProbe(valeCheck) ==
    IF ~valeCheck.installed THEN "serving"
    ELSE IF Truthy(config.configPath) THEN "verify_wait"
    ELSE "find_wait"

\* main calls initializeValeConfig, which calls checkValeInstalled.
MainStart ==
    /\ mainPc = "start"
    /\ mainPc' = (IF CacheHit(valeInstallCache)
                  THEN AfterStartupProbe(CachedStatus(valeInstallCache))
                  ELSE "probe_wait")
    /\ UNCHANGED <<valeInstallCache, valeConfigPath, config, readable, valePresent,
                   req, completed, stale, cacheStale, race, pipeline>>

\* The record of a finished version query in the history variable race.
Raced(who, outcome, status) == [who |-> who, outcome |-> outcome, returned |-> status]

\* The startup version query finishes; without the tool initializeValeConfig
\* returns and the server is connected.
MainProbeReturn ==
    /\ mainPc = "probe_wait"
    /\ LET outcome == VersionQuery(valePresent) IN
       /\ valeInstallCache' = StoreVersionResult(valeInstallCache, outcome)
       /\ race' = IF Main \in stale THEN race
                  ELSE race \cup {Raced(Main, outcome, CachedStatus(valeInstallCache'))}
    /\ cacheStale' = (Main \in stale)
    /\ stale' = stale \ {Main}
    /\ mainPc' = AfterStartupProbe(CachedStatus(valeInstallCache'))
    /\ UNCHANGED <<valeConfigPath, config, readable, valePresent, req, completed, pipeline>>

\* Priority 1: the VALE_CONFIG_PATH override, if it is a readable file.
MainVerifyDone ==
    /\ mainPc = "verify_wait"
    /\ LET resolvedPath == resolveConfigPath(config.configPath) IN
       IF verifyConfigFile(resolvedPath)
       THEN /\ valeConfigPath' = resolvedPath
            /\ mainPc' = "serving"
       ELSE /\ valeConfigPath' = valeConfigPath
            /\ mainPc' = "find_wait"
    /\ UNCHANGED <<valeInstallCache, config, readable, valePresent, req, completed,
                   stale, cacheStale, race, pipeline>>

\* Priority 2: .vale.ini in the working directory; then the server is connected.
MainFindDone ==
    /\ mainPc = "find_wait"
    /\ LET workingDirConfig == findValeIniInWorkingDir IN
       valeConfigPath' = (IF Truthy(workingDirConfig) THEN workingDirConfig
                          ELSE valeConfigPath)
    /\ mainPc' = "serving"
    /\ UNCHANGED <<valeInstallCache, config, readable, valePresent, req, completed,
                   stale, cacheStale, race, pipeline>>

(***************************************************************************)
(* The call-tool handler, one action per stretch between awaits.           *)
(***************************************************************************)

\* A request arrives on a free slot and runs to its first await or its end.
CallTool(r) ==
    /\ mainPc = "serving"
    /\ req[r].pc = "idle"
    /\ \E name \in ToolNames : \E args \in ArgsOf(name) :
          Reach(r, Dispatch(name, args, valeInstallCache, valeConfigPath))
    /\ UNCHANGED <<valeInstallCache, valeConfigPath, config, readable, valePresent,
                   mainPc, stale, cacheStale, race, pipeline>>

\* The version query of request r finishes: the cache is overwritten, the
\* status is read back from it and the handler goes on.
ProbeReturn(r) ==
    /\ req[r].pc = "probe_wait"
    /\ LET outcome == VersionQuery(valePresent) IN
       /\ valeInstallCache' = StoreVersionResult(valeInstallCache, outcome)
       /\ race' = IF r \in stale THEN race
                  ELSE race \cup {Raced(r, outcome, CachedStatus(valeInstallCache'))}
    /\ cacheStale' = (r \in stale)
    /\ stale' = stale \ {r}
    /\ Reach(r, AfterProbe(req[r], CachedStatus(valeInstallCache'), valeConfigPath))
    /\ UNCHANGED <<valeConfigPath, config, readable, valePresent, mainPc, pipeline>>

\* The sync command has finished.
SyncExecDone(r) ==
    /\ req[r].pc = "sync_exec"
    /\ \E outcome \in SyncOutcomes :
          LET done == syncValeStylesFinish(outcome)
              s == [req[r] EXCEPT !.outcome = outcome]
          IN Reach(r, IF done.thrown THEN Throw(s, done.message)
                      ELSE Return([s EXCEPT !.syncResult = done.value],
                                  SyncResponse(done.value)))
    /\ UNCHANGED <<valeInstallCache, valeConfigPath, config, readable, valePresent,
                   mainPc, stale, cacheStale, race, pipeline>>

\* The lint command has finished.
LintExecDone(r) ==
    /\ req[r].pc = "lint_exec"
    /\ \E outcome \in LintOutcomes :
          LET done == checkFileFinish(req[r].cmd.target, outcome)
              s == [req[r] EXCEPT !.outcome = outcome]
          IN Reach(r, IF done.thrown THEN Throw(s, done.message)
                      ELSE Return(s, ReportResponse(done.value)))
    /\ UNCHANGED <<valeInstallCache, valeConfigPath, config, readable, valePresent,
                   mainPc, stale, cacheStale, race, pipeline>>

(***************************************************************************)
(* The exported cache reset, and the environment.                          *)
(***************************************************************************)

\* Callers whose version query is running.
InFlight ==
    {r \in Reqs : req[r].pc = "probe_wait"}
    \cup (IF mainPc = "probe_wait" THEN {Main} ELSE {})

clearValeInstallCache ==
    /\ valeInstallCache' = UncheckedCache
    /\ stale' = InFlight
    /\ cacheStale' = FALSE
    /\ race' = {}
    /\ UNCHANGED <<valeConfigPath, config, readable, valePresent, mainPc, req, completed, pipeline>>

\* The tool is installed while the server process keeps running.
InstallVale ==
    /\ ~valePresent
    /\ valePresent' = TRUE
    /\ UNCHANGED <<valeInstallCache, valeConfigPath, config, readable, mainPc, req,
                   completed, stale, cacheStale, race, pipeline>>

\* A vale_status request arrives: the caller of checkValeInstalled in the
\* specification of the cache.
CallStatus(r) ==
    /\ mainPc = "serving"
    /\ req[r].pc = "idle"
    /\ Reach(r, Dispatch("vale_status", NoArgs, valeInstallCache, valeConfigPath))
    /\ UNCHANGED <<valeInstallCache, valeConfigPath, config, readable, valePresent,
                   mainPc, stale, cacheStale, race, pipeline>>

\* The server program.  index.ts never calls clearValeInstallCache, and it
\* is connected only after the startup probe has filled the cache, so no
\* request of the program ever waits for a version query of its own.
Next ==
    \/ MainStart
    \/ MainProbeReturn
    \/ MainVerifyDone
    \/ MainFindDone
    \/ \E r \in Reqs : CallTool(r)
    \/ \E r \in Reqs : SyncExecDone(r)
    \/ \E r \in Reqs : LintExecDone(r)
    \/ InstallVale

Spec == Init /\ [][Next]_vars

\* The installation cache under its exported operations: probes (the
\* startup one and those of vale_status requests) interleaved with calls
\* of clearValeInstallCache by a program that embeds vale-runner.ts.
CacheNext ==
    \/ MainStart
    \/ MainProbeReturn
    \/ MainVerifyDone
    \/ MainFindDone
    \/ \E r \in Reqs : CallStatus(r)
    \/ \E r \in Reqs : ProbeReturn(r)
    \/ clearValeInstallCache
    \/ InstallVale

SpecCache == Init /\ [][CacheNext]_vars

(***************************************************************************)
(* The output pipeline of checkFile on its own: the stdout of the lint     *)
(* command is parsed, the raw document normalized, the issues summarized   *)
(* and the report rendered.  A run starts from a text (an optional opening *)
(* fence, a body, an optional closing fence) or from a raw document as     *)
(* JSON.parse gives it.                                                    *)
(***************************************************************************)

\* Largest number of issues in a generated document.
MaxIssues == 3

\* Severity values of raw issues: those of ValeSeverity, and one that is not.
Severities == {"error", "warning", "suggestion", "info"}

SeverityLists == UNION {[1..n -> Severities] : n \in 0..MaxIssues}

CheckNames == <<"Vale.Spelling", "Vale.Repetition", "Style.Passive", "Style.Wordy">>

\* Raw issue number i of a document: its line is i, its rule is taken in
\* turn, it has a match when i is odd and a link when i is even.
RawIssue(i, severity) ==
    Issue(i, CheckNames[((i - 1) % Len(CheckNames)) + 1], severity,
          IF i % 2 = 1 THEN <<"the the">> ELSE Undefined,
          IF i % 2 = 0 THEN <<"https://vale.sh">> ELSE Undefined)

\* The document whose issues have these severities, the first k of them
\* under a first file and the others under a second one.
Document(sevs, k) ==
    << [file |-> <<"a.md">>, issues |-> [i \in 1..k |-> RawIssue(i, sevs[i])]],
       [file |-> <<"b.md">>,
        issues |-> [i \in 1..(Len(sevs) - k) |-> RawIssue(k + i, sevs[k + i])]] >>

Documents ==
    {<<>>} \cup UNION {{Document(sevs, k) : k \in 0..Len(sevs)} : sevs \in SeverityLists}

\* The pieces of a stdout text.
Openers == {<<>>, <<FenceJson>>, <<FenceJson, "\n">>, <<FenceJson, " ", "\n">>}

Bodies == {<<>>, <<" ">>, <<"\n">>, <<" ", "\n", " ">>, <<"{}">>, <<"DOC1">>,
           <<" ", "DOC2", "\n">>, <<"not json">>, <<"DOC1", "DOC1">>}

Closers == {<<>>, <<Fence>>, <<"\n", Fence>>, <<"\n", Fence, "\n">>,
            <<"\n", "\n", Fence, " ">>}

\* A run that starts from the stdout text opener + body + closer.
TextRun(opener, body, closer) ==
    [IdlePipeline EXCEPT !.pc = "stdout", !.fromText = TRUE,
                         !.opener = opener, !.body = body,
                         !.closer = closer, !.stdout = opener \o body \o closer]

\* A run that starts from a parsed document.
DocumentRun(document) == [IdlePipeline EXCEPT !.pc = "raw", !.rawOutput = document]

InitOutput ==
    /\ valeInstallCache = UncheckedCache
    /\ valeConfigPath = Undefined
    /\ config = loadConfig(Undefined)
    /\ readable = AlwaysReadable
    /\ valePresent = TRUE
    /\ mainPc = "start"
    /\ req = [r \in Reqs |-> IdleSlot]
    /\ completed = IdleSlot
    /\ stale = {}
    /\ cacheStale = FALSE
    /\ race = {}
    /\ \/ \E opener \in Openers, body \in Bodies, closer \in Closers :
             pipeline = TextRun(opener, body, closer)
       \/ \E document \in Documents : pipeline = DocumentRun(document)

\* const rawOutput = parseValeOutput(stdout)
Parse ==
    /\ pipeline.pc = "stdout"
    /\ LET parsed == parseValeOutput(pipeline.stdout) IN
       pipeline' = IF parsed.thrown
                   THEN [pipeline EXCEPT !.pc = "failed", !.message = parsed.message]
                   ELSE [pipeline EXCEPT !.pc = "raw", !.rawOutput = parsed.value]
    /\ UNCHANGED <<valeInstallCache, valeConfigPath, config, readable, valePresent,
                   mainPc, req, completed, stale, cacheStale, race>>

\* const issues = normalizeIssues(rawOutput)
Normalize ==
    /\ pipeline.pc = "raw"
    /\ pipeline' = [pipeline EXCEPT !.pc = "issues",
                                    !.issues = normalizeIssues(pipeline.rawOutput)]
    /\ UNCHANGED <<valeInstallCache, valeConfigPath, config, readable, valePresent,
                   mainPc, req, completed, stale, cacheStale, race>>

\* const summary = generateSummary(issues)
Summarize ==
    /\ pipeline.pc = "issues"
    /\ pipeline' = [pipeline EXCEPT !.pc = "summary",
                                    !.summary = generateSummary(pipeline.issues)]
    /\ UNCHANGED <<valeInstallCache, valeConfigPath, config, readable, valePresent,
                   mainPc, req, completed, stale, cacheStale, race>>

\* const formatted = formatValeResults(issues, summary, absolutePath)
Format ==
    /\ pipeline.pc = "summary"
    /\ pipeline' = [pipeline EXCEPT !.pc = "formatted",
                        !.formatted = formatValeResults(pipeline.issues, pipeline.summary, DocA)]
    /\ UNCHANGED <<valeInstallCache, valeConfigPath, config, readable, valePresent,
                   mainPc, req, completed, stale, cacheStale, race>>

OutputNext == Parse \/ Normalize \/ Summarize \/ Format

SpecOutput == InitOutput /\ [][OutputNext]_vars

(***************************************************************************)
(* Properties.                                                             *)
(***************************************************************************)

\* Callers whose version query finishes in the step.
Finishing ==
    {r \in Reqs : req[r].pc = "probe_wait" /\ req'[r].pc # "probe_wait"}
    \cup (IF mainPc = "probe_wait" /\ mainPc' # "probe_wait" THEN {Main} ELSE {})

\* A version query is launched in the step.
LaunchInStep ==
    \/ \E r \in Reqs : req[r].pc # "probe_wait" /\ req'[r].pc = "probe_wait"
    \/ mainPc # "probe_wait" /\ mainPc' = "probe_wait"

\* C1: once the cache is checked, a probe that is called returns exactly
\* the stored status and launches no version query, the stored status
\* changes only by clearValeInstallCache (or by the end of a query that
\* was already running when it was stored), and only clearValeInstallCache
\* takes the cache from checked back to unchecked.
C1_CachedUntilCleared ==
    [][ valeInstallCache.checked =>
          /\ ~LaunchInStep
          /\ \A r \in Reqs :
                CallStatus(r) =>
                    /\ completed'.probed
                    /\ completed'.valeCheck = CachedStatus(valeInstallCache)
                    /\ valeInstallCache' = valeInstallCache
          /\ (valeInstallCache' # valeInstallCache =>
                \/ clearValeInstallCache
                \/ Finishing # {} /\ valeInstallCache'.checked)
      ]_vars

\* C1 witness: the tool has been installed since the cache stored "not
\* installed", and a vale_status request called afterwards was answered
\* from the cache without a version query.
C1_Witness ==
    /\ valePresent
    /\ valeInstallCache.checked /\ ~valeInstallCache.installed
    /\ completed.name = "vale_status" /\ completed.probed
    /\ ~completed.probeLaunched
    /\ completed.valeCheck = CachedStatus(valeInstallCache)

\* The status the probe is to give for an outcome of the version query.
ExpectedStatus(outcome) ==
    IF outcome.ok
    THEN [installed |-> TRUE, version |-> trim(outcome.stdout), error |-> Undefined]
    ELSE [installed |-> FALSE, version |-> Undefined, error |-> outcome.message]

\* A race is over: at least two probes launched their own version query
\* since the cache was last unchecked, all of them have finished, and the
\* cache was last written by one of them.
RaceOver ==
    /\ Cardinality(race) >= 2
    /\ InFlight = {}
    /\ valeInstallCache.checked
    /\ ~cacheStale

\* All queries of the race gave the same outcome.
SameOutcome == \A p, q \in race : p.outcome = q.outcome

\* C2 (as amended): after a race the cache holds the whole status record
\* of the query of one of the racing probes, never a mix of two results;
\* and when the racing queries all gave the same outcome, every racing
\* probe returned a status equal to the final cached value.
C2_RaceConverges ==
    RaceOver =>
        /\ \E q \in race : CachedStatus(valeInstallCache) = ExpectedStatus(q.outcome)
        /\ \A q \in race : q.returned = ExpectedStatus(q.outcome)
        /\ SameOutcome =>
              \A q \in race : q.returned = CachedStatus(valeInstallCache)

\* C2 witness: a finished race of two requests whose queries agreed.
C2_Witness ==
    /\ RaceOver
    /\ SameOutcome
    /\ \E p, q \in race : p.who # q.who /\ p.who # Main /\ q.who # Main

\* C2 as stated: after a race every racing probe returned a status equal
\* to the final cached value, whatever the queries answered.
C2_AsStated ==
    RaceOver => \A q \in race : q.returned = CachedStatus(valeInstallCache)

\* The requests in flight and the one that finished last.
Records == {req[r] : r \in Reqs} \cup {completed}

\* The class of a failure, which the code carries in the head of the message.
ErrorClass(errorMessage) ==
    IF errorMessage = Undefined \/ errorMessage = <<>> THEN "none"
    ELSE CASE Head(errorMessage) = "File not found or not readable: " -> "FileNotFound"
           [] Head(errorMessage) = "Vale execution failed: " -> "ToolExecutionFailed"
           [] Head(errorMessage) = "Failed to parse Vale JSON output: " -> "MalformedToolOutput"
           [] OTHER -> "other"

\* C3: every tool invocation, whatever its name and arguments and whatever
\* failure the probe, sync, run, parse or format step raises, ends with a
\* response payload and never with a fault leaving the handler; a caught
\* failure is answered by one of the two error payloads; and after a
\* failed request the server is still serving and takes a new request on
\* every free slot.
C3_NoFaultPastDispatcher ==
    /\ completed.pc = "done" =>
          /\ ~completed.fault
          /\ completed.resp.kind # "none"
          /\ completed.error # Undefined =>
                completed.resp.kind \in {"styles_guidance", "generic_error"}
          /\ completed.error # Undefined => mainPc = "serving"
    /\ \A r \in Reqs : ~req[r].fault
    /\ mainPc = "serving" =>
          \A r \in Reqs : req[r].pc = "idle" => ENABLED CallTool(r)

\* C3 witness: a request without arguments has failed inside the handler,
\* was answered with the generic error payload, and a slot is free.
C3_Witness ==
    /\ completed.pc = "done"
    /\ completed.name = "vale_sync" /\ ~completed.args.present
    /\ completed.error = DestructureMessage
    /\ completed.resp.kind = "generic_error"
    /\ \E r \in Reqs : req[r].pc = "idle" /\ ENABLED CallTool(r)

\* The keys of the not-installed payload.
NotInstalledKeys == {"error", "vale_required", "installation_instructions", "message"}

\* C4: when the probe has reported installed = false to a vale_sync or a
\* check_file request (with a non-empty path), the request is answered
\* with the one not-installed payload, with exactly its four keys, and it
\* launches neither the sync nor the lint command.
C4_UniformNotInstalled ==
    \A rec \in Records :
        (rec.name \in {"vale_sync", "check_file"} /\ rec.probed /\ ~rec.valeCheck.installed) =>
            /\ rec.pc = "done"
            /\ rec.resp = createValeNotInstalledResponse
            /\ DOMAIN rec.resp.json = NotInstalledKeys
            /\ rec.cmd = NoCmd
            /\ rec.error = Undefined

\* C4 witness: a check_file request with a non-empty path was answered
\* with the not-installed payload.
C4_Witness ==
    /\ completed.name = "check_file" /\ Truthy(completed.args.path)
    /\ completed.probed /\ ~completed.valeCheck.installed
    /\ completed.resp.kind = "not_installed"

\* The values the installation cache can hold.
CacheValues ==
    {UncheckedCache} \cup {StoreVersionResult(UncheckedCache, VersionQuery(p)) : p \in BOOLEAN}

\* A request that ended as an invalid request without touching the tool.
InvalidRequestOnly(rec) ==
    /\ rec.pc = "done"
    /\ rec.resp.kind = "invalid_request"
    /\ rec.resp.json = [error |-> <<"Missing required parameter: path">>]
    /\ ~rec.probed /\ ~rec.probeLaunched
    /\ rec.cmd = NoCmd

\* C5: check_file with an empty path string is answered with the
\* missing-parameter response and runs neither the version query nor the
\* lint command, in every cache state and with the tool installed or not.
C5_EmptyPathRejected ==
    /\ \A rec \in Records :
          (rec.name = "check_file" /\ rec.args.present /\ rec.args.path = <<>>) =>
              InvalidRequestOnly(rec)
    /\ \A cache \in CacheValues :
          InvalidRequestOnly(Dispatch("check_file", Args(<<>>, Undefined), cache, valeConfigPath))

\* C5 witness: the tool is installed and a check_file request with an
\* empty path was rejected.
C5_Witness ==
    /\ valeInstallCache.installed
    /\ completed.name = "check_file" /\ completed.args.present
    /\ completed.args.path = <<>>
    /\ completed.resp.kind = "invalid_request"

\* The failure checkFile is to raise when the lint command left no stdout.
ExecutionFailedMessage(outcome) ==
    <<"Vale execution failed: ">>
    \o (IF outcome.stderr # <<>> THEN outcome.stderr ELSE outcome.message)

\* The request ends with the result of parsing this stdout: the report of
\* the issues parsed from it, or the parser's failure.
ParsedAsResult(rec, stdout) ==
    LET parsed == parseValeOutput(stdout) IN
    IF parsed.thrown
    THEN rec.error = parsed.message
    ELSE /\ rec.error = Undefined
         /\ rec.resp.kind = "report"
         /\ rec.resp.meta.issues = normalizeIssues(parsed.value)

\* C6 (as amended): a lint command that exits non-zero with non-empty
\* stdout is never reported as ToolExecutionFailed and its stdout is parsed
\* as the result; one that exits non-zero without stdout content is
\* reported as ToolExecutionFailed carrying the stderr, or the error
\* message when stderr is empty; one that exits zero is never reported as
\* ToolExecutionFailed, its stdout is parsed even when it is empty.
C6_StdoutDecidesOnFailure ==
    (completed.pc = "done" /\ completed.cmd.tool = "lint") =>
        LET outcome == completed.outcome IN
        /\ (~outcome.ok /\ outcome.stdout # <<>>) =>
              /\ ErrorClass(completed.error) # "ToolExecutionFailed"
              /\ ParsedAsResult(completed, outcome.stdout)
        /\ (~outcome.ok /\ outcome.stdout = <<>>) =>
              completed.error = ExecutionFailedMessage(outcome)
        /\ outcome.ok =>
              /\ ErrorClass(completed.error) # "ToolExecutionFailed"
              /\ ParsedAsResult(completed, outcome.stdout)

\* C6 witness: a lint command exited non-zero with issues on stdout, and
\* the request was answered with the report of these issues.
C6_Witness ==
    /\ completed.pc = "done" /\ completed.cmd.tool = "lint"
    /\ ~completed.outcome.ok /\ completed.outcome.stdout # <<>>
    /\ completed.resp.kind = "report"
    /\ Len(completed.resp.meta.issues) > 0

\* C6 as stated: stdout alone decides, so every lint command that yields
\* no stdout content is reported as ToolExecutionFailed.
C6_AsStated ==
    (completed.pc = "done" /\ completed.cmd.tool = "lint") =>
        LET outcome == completed.outcome IN
        /\ (~outcome.ok /\ outcome.stdout # <<>>) =>
              /\ ErrorClass(completed.error) # "ToolExecutionFailed"
              /\ ParsedAsResult(completed, outcome.stdout)
        /\ outcome.stdout = <<>> =>
              completed.error = ExecutionFailedMessage(outcome)

\* C7: with the tool installed, check_file on a path that names no
\* readable file is answered with the FileNotFound error naming the path,
\* as the generic error payload and not as another class of response, and
\* launches no lint command.
C7_FileNotFoundReported ==
    (/\ completed.pc = "done" /\ completed.name = "check_file"
     /\ completed.probed /\ completed.valeCheck.installed
     /\ ~Readable(completed.args.path)) =>
        /\ completed.error = FileNotFoundMessage(completed.args.path)
        /\ completed.resp.kind = "generic_error"
        /\ completed.resp.json["error"] = FileNotFoundMessage(completed.args.path)
        /\ completed.cmd = NoCmd

\* C8: a vale_sync request that reached syncValeStyles gets a result
\* record and no failure, for a config path that is absent, readable or
\* unreadable: success and an output when the command succeeded, no
\* success and the error when it failed.
C8_SyncNeverThrows ==
    (completed.pc = "done" /\ completed.cmd.tool = "sync") =>
        /\ completed.error = Undefined
        /\ completed.syncResult.success = completed.outcome.ok
        /\ completed.outcome.ok =>
              /\ completed.syncResult.output # Undefined
              /\ completed.syncResult.error = Undefined
              /\ completed.resp.kind = "sync_ok"
        /\ ~completed.outcome.ok =>
              /\ completed.syncResult.error = completed.outcome.message
              /\ completed.syncResult.output = Undefined
              /\ completed.resp.kind = "sync_failed"

\* C8 witness: the sync command failed for a request whose config path
\* is not readable, and the request got the failure record.
C8_Witness ==
    /\ completed.pc = "done" /\ completed.cmd.tool = "sync"
    /\ Truthy(completed.configPath) /\ ~Readable(completed.configPath)
    /\ ~completed.outcome.ok
    /\ ~completed.syncResult.success
    /\ completed.resp.kind = "sync_failed"

\* The process-wide path by the stated priority: the override when it is a
\* readable file, else the working directory's .vale.ini when readable,
\* else none.
ProcessWidePath ==
    IF Truthy(config.configPath) /\ resolve(config.configPath) \in readable
    THEN resolve(config.configPath)
    ELSE IF CwdIni \in readable THEN CwdIni
    ELSE Undefined

\* C9 (as amended): the sync command gets the per-call path when one is
\* given and is a readable file, and no config path (the process-wide one
\* neither) when the per-call path is not readable; without a per-call
\* path it gets the process-wide path, which after a startup that found
\* the tool is the override if that is a readable file, else the working
\* directory's .vale.ini if readable, else none.
C9_ConfigPriority ==
    /\ \A rec \in Records :
          rec.cmd.tool = "sync" =>
              rec.cmd.config =
                 (IF Truthy(rec.args.config_path)
                  THEN (IF Readable(rec.args.config_path)
                        THEN rec.args.config_path ELSE Undefined)
                  ELSE ProcessWidePath)
    /\ (mainPc = "serving" /\ valeInstallCache.installed) =>
          valeConfigPath = ProcessWidePath

\* C9 witness: a sync command got a readable per-call path although a
\* different process-wide path was resolved, and the override of this run
\* points at a file that is not readable.
C9_Witness ==
    /\ completed.cmd.tool = "sync"
    /\ Truthy(completed.args.config_path)
    /\ Truthy(config.configPath) /\ ~Readable(config.configPath)
    /\ valeConfigPath = CwdIni
    /\ completed.cmd.config = completed.args.config_path
    /\ completed.cmd.config # valeConfigPath

\* C9 as stated: a per-call path, when given, is the one passed to the
\* sync command.
C9_AsStated ==
    /\ \A rec \in Records :
          rec.cmd.tool = "sync" =>
              rec.cmd.config =
                 (IF Truthy(rec.args.config_path) THEN rec.args.config_path
                  ELSE ProcessWidePath)
    /\ (mainPc = "serving" /\ valeInstallCache.installed) =>
          valeConfigPath = ProcessWidePath

\* The config file the external tool finds by its upward search from dir.
RECURSIVE UpwardSearch(_)
UpwardSearch(dir) ==
    IF join(dir, ".vale.ini") \in readable THEN join(dir, ".vale.ini")
    ELSE IF dir = <<"/">> \/ dir = <<".">> THEN Undefined
    ELSE UpwardSearch(dirname(dir))

\* The config the external tool works with for a command: the one of the
\* config flag, else the one its upward search from the working directory
\* of the command finds, else its defaults (Undefined).
ConfigUsedByVale(cmd) ==
    IF cmd.config # Undefined THEN cmd.config ELSE UpwardSearch(cmd.cwd)

\* The config check_file is to work with by the documented priority.
DocumentedConfig(filePath) ==
    LET perFile == UpwardSearch(dirname(resolve(filePath))) IN
    IF perFile # Undefined THEN perFile ELSE ProcessWidePath

\* C10: the lint command of check_file works with the config discovered
\* from the checked file's directory when there is one, else with the
\* VALE_CONFIG_PATH override, else with the working directory's
\* .vale.ini, else with Vale's defaults.
C10_PerFileConfigFirst ==
    \A rec \in Records :
        rec.cmd.tool = "lint" => ConfigUsedByVale(rec.cmd) = DocumentedConfig(rec.args.path)

\* The absolute path and the directory of each readable target of the model.
TargetFile(filePath) == IF filePath = SubB THEN SubBAbs ELSE filePath

TargetDir(filePath) ==
    IF filePath = SubB THEN <<"/", "srv", "/", "sub">> ELSE <<"/", "docs">>

\* C11: the lint command carries the config flag exactly when the
\* resolver supplied a process-wide config path, and then with that path;
\* without one the flag is omitted; and in every case the command is run
\* on the absolute target, in the directory of that target and not in the
\* server's working directory.
C11_ConfigFlagAndCwd ==
    \A rec \in Records :
        rec.cmd.tool = "lint" =>
            /\ (rec.cmd.config # Undefined) <=> (valeConfigPath # Undefined)
            /\ valeConfigPath # Undefined => rec.cmd.config = valeConfigPath
            /\ rec.cmd.target = TargetFile(rec.args.path)
            /\ rec.cmd.cwd = TargetDir(rec.args.path)
            /\ rec.cmd.cwd # Cwd

\* C11 witness: a lint command for a target given by a relative path was
\* launched without the config flag, in the directory of the target.
C11_Witness ==
    \E r \in Reqs :
        /\ req[r].pc = "lint_exec"
        /\ req[r].args.path = SubB
        /\ valeConfigPath = Undefined
        /\ req[r].cmd.config = Undefined
        /\ req[r].cmd.cwd = <<"/", "srv", "/", "sub">>

\* The severities the summary and the report know.
Recognized == {"error", "warning", "suggestion"}

\* The issues of a list whose severity is recognized.
RecognizedIn(issues) == {i \in DOMAIN issues : issues[i].severity \in Recognized}

\* The three counts of a summary, added up.
CountsTotal(summary) == summary.errors + summary.warnings + summary.suggestions

\* C12 (as amended): for any issue list produced by the normalizer the
\* summary's total is the number of issues in the list, and its three
\* counts add up to the number of issues whose severity is error, warning
\* or suggestion; so the total equals errors + warnings + suggestions
\* exactly when every issue of the list has one of these severities.
C12_SummaryTotals ==
    pipeline.pc \in {"summary", "formatted"} =>
        /\ pipeline.summary.total = Len(pipeline.issues)
        /\ CountsTotal(pipeline.summary) = Cardinality(RecognizedIn(pipeline.issues))
        /\ (pipeline.summary.total = CountsTotal(pipeline.summary))
              <=> (RecognizedIn(pipeline.issues) = DOMAIN pipeline.issues)

\* C12 witness: a list of three issues, one of them of a severity that
\* is not recognized, has been summarized.
C12_Witness ==
    /\ pipeline.pc = "summary"
    /\ Len(pipeline.issues) = 3
    /\ Cardinality(RecognizedIn(pipeline.issues)) = 2
    /\ pipeline.summary.total = 3

\* C12 as stated: for any issue list, also one with other severities, the
\* total is the number of issues and is errors + warnings + suggestions.
C12_AsStated ==
    pipeline.pc \in {"summary", "formatted"} =>
        /\ pipeline.summary.total = Len(pipeline.issues)
        /\ pipeline.summary.total = CountsTotal(pipeline.summary)

\* The place of a severity in the order of the groups.
Rank(severity) ==
    CASE severity = "error" -> 1
      [] severity = "warning" -> 2
      [] severity = "suggestion" -> 3
      [] OTHER -> 4

\* The place in the issue list of the issue an entry block renders.
Position(issues, entry) ==
    CHOOSE i \in DOMAIN issues :
        issues[i].line = entry.line /\ issues[i].check = entry.check

\* The number of issues of a list that have a severity.
NumberOf(issues, severity) ==
    Cardinality({i \in DOMAIN issues : issues[i].severity = severity})

\* C13: in the report of a non-empty issue list the entry blocks come
\* grouped in the order error, warning, suggestion, the blocks of one
\* group in the order their issues have in the list, and the
\* parenthesized clause names a severity only with its non-zero count.
C13_GroupedInOrder ==
    (pipeline.pc = "formatted" /\ Len(pipeline.issues) > 0) =>
        LET entries == pipeline.formatted.entries
            parts == pipeline.formatted.parts
        IN /\ \A i, j \in DOMAIN entries :
                 i < j =>
                     /\ Rank(entries[i].severity) <= Rank(entries[j].severity)
                     /\ entries[i].severity = entries[j].severity =>
                           Position(pipeline.issues, entries[i])
                               < Position(pipeline.issues, entries[j])
           /\ \A k \in DOMAIN parts :
                 /\ parts[k][1] > 0
                 /\ parts[k][1] = NumberOf(pipeline.issues, parts[k][2])
           /\ \A severity \in Recognized :
                 NumberOf(pipeline.issues, severity) = 0 =>
                     ~\E k \in DOMAIN parts : parts[k][2] = severity

\* C13 witness: in the list a suggestion comes before an error, the
\* report renders the error first, and the list has no warning, which
\* the clause leaves out.
C13_Witness ==
    /\ pipeline.pc = "formatted"
    /\ Len(pipeline.issues) = 3
    /\ pipeline.issues[1].severity = "suggestion"
    /\ pipeline.issues[2].severity = "error"
    /\ pipeline.issues[3].severity = "suggestion"
    /\ Len(pipeline.formatted.entries) = 3
    /\ pipeline.formatted.entries[1].severity = "error"
    /\ pipeline.formatted.entries[2].line = pipeline.issues[1].line
    /\ Len(pipeline.formatted.parts) = 2

\* The entry blocks of a report that name an issue's line and rule.
EntriesFor(entries, issue) ==
    {k \in DOMAIN entries : entries[k].line = issue.line /\ entries[k].check = issue.check}

\* C17 (as amended): in the report of a non-empty issue list every issue
\* whose severity is error, warning or suggestion has exactly one entry
\* block, naming its line number and rule identifier under its severity,
\* and an issue of any other severity has none; every block renders an
\* issue of the list; so the number of blocks is the number of issues of
\* the three severities, while the total of the summary line is the
\* number of all issues.
C17_OneEntryPerIssue ==
    (pipeline.pc = "formatted" /\ Len(pipeline.issues) > 0) =>
        LET entries == pipeline.formatted.entries
            issues == pipeline.issues
        IN /\ \A i \in DOMAIN issues :
                 /\ Cardinality(EntriesFor(entries, issues[i]))
                       = (IF issues[i].severity \in Recognized THEN 1 ELSE 0)
                 /\ \A k \in EntriesFor(entries, issues[i]) :
                       entries[k].severity = issues[i].severity
           /\ \A k \in DOMAIN entries :
                 \E i \in DOMAIN issues : k \in EntriesFor(entries, issues[i])
           /\ Len(entries) = Cardinality(RecognizedIn(issues))
           /\ pipeline.formatted.total = Len(issues)

\* C17 witness: three issues of two of the three severities were rendered
\* as three entry blocks, the total shown being three.
C17_Witness ==
    /\ pipeline.pc = "formatted"
    /\ Len(pipeline.issues) = 3
    /\ RecognizedIn(pipeline.issues) = DOMAIN pipeline.issues
    /\ pipeline.issues[1].severity = "warning"
    /\ pipeline.issues[2].severity = "warning"
    /\ pipeline.issues[3].severity = "error"
    /\ Len(pipeline.formatted.entries) = 3
    /\ pipeline.formatted.total = 3

\* C17 as stated: for every non-empty issue list each issue has exactly
\* one entry block, and the number of blocks is the number of issues and
\* the total shown.
C17_AsStated ==
    (pipeline.pc = "formatted" /\ Len(pipeline.issues) > 0) =>
        /\ \A i \in DOMAIN pipeline.issues :
              Cardinality(EntriesFor(pipeline.formatted.entries, pipeline.issues[i])) = 1
        /\ Len(pipeline.formatted.entries) = Len(pipeline.issues)
        /\ Len(pipeline.formatted.entries) = pipeline.formatted.total

\* A vale_status request has been answered.
StatusAnswered == completed.pc = "done" /\ completed.name = "vale_status"

\* C14 (as amended): the response of vale_status carries the installation
\* guidance exactly when the probe said not installed, and a version
\* exactly when it said installed: after installed = false the payload
\* has installed false, the guidance as installation_instructions and no
\* version member; after installed = true it has installed true, the
\* version, and the member installation_instructions with the value null.
C14_StatusPayload ==
    StatusAnswered =>
        LET json == completed.resp.json IN
        /\ completed.resp.kind = "status"
        /\ ~completed.valeCheck.installed =>
              /\ json["installed"] = <<"false">>
              /\ "installation_instructions" \in DOMAIN json
              /\ json["installation_instructions"] = getInstallationInstructions
              /\ json["installation_instructions"] # <<"null">>
              /\ "version" \notin DOMAIN json
        /\ completed.valeCheck.installed =>
              /\ json["installed"] = <<"true">>
              /\ "version" \in DOMAIN json
              /\ json["version"] = <<"vale version 3.7.1">>
              /\ "installation_instructions" \in DOMAIN json
              /\ json["installation_instructions"] = <<"null">>

\* C14 witness: vale_status was answered with the tool installed.
C14_Witness ==
    /\ StatusAnswered
    /\ completed.valeCheck.installed
    /\ completed.resp.json["installed"] = <<"true">>

\* C14 as stated: with the tool installed the payload has the version
\* and no installation_instructions member; without it, the guidance and
\* no version member.
C14_AsStated ==
    StatusAnswered =>
        LET json == completed.resp.json IN
        /\ ~completed.valeCheck.installed =>
              /\ json["installed"] = <<"false">>
              /\ "installation_instructions" \in DOMAIN json
              /\ json["installation_instructions"] # <<"null">>
              /\ "version" \notin DOMAIN json
        /\ completed.valeCheck.installed =>
              /\ json["installed"] = <<"true">>
              /\ "version" \in DOMAIN json
              /\ "installation_instructions" \notin DOMAIN json

\* C15: once the tool is available, a vale_status request made to the
\* running server reports installed true, and a vale_sync or check_file
\* request made then is not answered with the not-installed payload.
C15_StatusAfterInstall ==
    [][ \A r \in Reqs :
          /\ (valePresent /\ CallStatus(r)) =>
                completed'.resp.json["installed"] = <<"true">>
          /\ (valePresent /\ CallTool(r) /\ completed' # completed
                /\ completed'.name \in {"vale_sync", "check_file"} /\ completed'.probed) =>
                completed'.resp.kind # "not_installed"
      ]_vars

\* The missing-styles signature in a failure message: E100, "does not
\* exist" or "Runtime error", in either letter case of the model's words.
MatchesSignature(message) ==
    \E i \in DOMAIN message :
        \/ message[i] \in {"E100", "e100"}
        \/ /\ i + 1 <= Len(message)
           /\ message[i] \in {"Runtime", "runtime"}
           /\ message[i + 1] = "error"
        \/ /\ i + 2 <= Len(message)
           /\ message[i] \in {"does", "Does"}
           /\ message[i + 1] = "not"
           /\ message[i + 2] = "exist"

\* C16: a failure caught by the handler is answered with the guidance to
\* run vale_sync exactly when its message matches the missing-styles
\* signature, and otherwise with the generic error payload, whose error
\* member is the raw message and which has a details member.
C16_GuidanceIffSignature ==
    (completed.pc = "done" /\ completed.error # Undefined) =>
        /\ (completed.resp.kind = "styles_guidance") <=> MatchesSignature(completed.error)
        /\ MatchesSignature(completed.error) =>
              /\ Contains(completed.resp.text, <<"Run the vale_sync tool">>)
              /\ completed.resp.json = NoJson
        /\ ~MatchesSignature(completed.error) =>
              /\ completed.resp.kind = "generic_error"
              /\ DOMAIN completed.resp.json = {"error", "details"}
              /\ completed.resp.json["error"] = completed.error

\* C16 witness: the lint command failed with "runtime error" in lower
\* case on stderr, and the request was answered with the guidance.
C16_Witness ==
    /\ completed.pc = "done"
    /\ completed.cmd.tool = "lint"
    /\ completed.outcome.stderr = <<"runtime", "error">>
    /\ completed.error = <<"Vale execution failed: ", "runtime", "error">>
    /\ completed.resp.kind = "styles_guidance"

\* A text of white space only (the empty text included).
Blank(text) == \A i \in DOMAIN text : text[i] \in {" ", "\n"}

\* The bodies of the model that are a JSON document with white space around it.
ValidBodies == {<<"{}">>, <<"DOC1">>, <<" ", "DOC2", "\n">>}

\* The pipeline has got at least as far as the named step's result.
Parsed == pipeline.pc \in {"raw", "issues", "summary", "formatted"}

Normalized == pipeline.pc \in {"issues", "summary", "formatted"}

Summarized == pipeline.pc \in {"summary", "formatted"}

\* C18: a stdout text that is empty or white space only, bare or inside
\* one code fence (with either half of the fence or both), is parsed to
\* the empty document and never fails; from it come the empty issue
\* list, the all-zero summary and the fixed no-issues report.  Parsing
\* fails only for a text whose body is neither blank nor a JSON
\* document, and the failure is MalformedToolOutput with the parser's
\* message in it.
C18_BlankOutputIsEmpty ==
    pipeline.fromText =>
        /\ Blank(pipeline.body) =>
              /\ pipeline.pc # "failed"
              /\ Parsed => pipeline.rawOutput = <<>>
              /\ Normalized => pipeline.issues = <<>>
              /\ Summarized =>
                    pipeline.summary =
                        [total |-> 0, errors |-> 0, warnings |-> 0, suggestions |-> 0]
              /\ pipeline.pc = "formatted" =>
                    /\ pipeline.formatted.noIssues
                    /\ pipeline.formatted.entries = <<>>
        /\ pipeline.pc = "failed" =>
              /\ ~Blank(pipeline.body)
              /\ pipeline.body \notin ValidBodies
              /\ ErrorClass(pipeline.message) = "MalformedToolOutput"
              /\ pipeline.message =
                    <<"Failed to parse Vale JSON output: ", "Unexpected token">>
        /\ pipeline.body \in ValidBodies => pipeline.pc # "failed"

\* C18 witness: a text of white space inside a code fence went through
\* the whole pipeline and gave the no-issues report.
C18_Witness ==
    /\ pipeline.fromText
    /\ pipeline.opener = <<FenceJson, "\n">>
    /\ pipeline.body = <<" ", "\n", " ">>
    /\ pipeline.closer = <<"\n", Fence, "\n">>
    /\ pipeline.pc = "formatted"
    /\ pipeline.formatted.noIssues

\* C19: a version query that was in flight when clearValeInstallCache was
\* called does not store its result into the cache when it finishes, and
\* a probe called after the clear, before any query launched after the
\* clear has finished, finds the cache unchecked and launches a version
\* query of its own.
C19_ClearEffective ==
    [][ /\ \A who \in Finishing :
              who \in stale => valeInstallCache' = valeInstallCache
        /\ \A r \in Reqs :
              (race = {} /\ CallStatus(r)) =>
                  /\ ~valeInstallCache.checked
                  /\ req'[r].pc = "probe_wait"
      ]_vars

====
